---- MODULE Spec2Model ----
(***************************************************************************)
(* A model of src/src/main.cpp: the tunnel generator, the tunnel           *)
(* activation state machine, enemy locomotion and the per-frame resolver   *)
(* of the main loop.                                                       *)
(*                                                                         *)
(* Positions are floats in the source.  Every speed is a multiple of a     *)
(* tenth of a pixel (2.0, 0.5, 1.2, 1.5), so the model keeps a position as *)
(* an integer number of tenths of a pixel; Px turns pixels into tenths and *)
(* ToInt is the source's truncating cast back to whole pixels.             *)
(***************************************************************************)
EXTENDS Integers, Sequences, FiniteSets, TLC

VARIABLES world, upd, frames, hits

vars == <<world, upd, frames, hits>>

-----------------------------------------------------------------------------
(* Grid & constants *)

TILE_SIZE == 32
GRID_WIDTH == 25
GRID_HEIGHT == 18
SCREEN_W == GRID_WIDTH * TILE_SIZE
SCREEN_H == GRID_HEIGHT * TILE_SIZE
START_LIVES == 3
RESPAWN_DELAY == 180
DEATH_FLASH_TIME == 30

PlayerSpeed == 20
PatrolSpeed == 5
MonsterChaseSpeed == 12
DragonChaseSpeed == 15
HarpoonFrames == 15
HarpoonReach == 50
MonsterPoints == 100
DragonPoints == 200
FruitPoints == 500
SpawnPixel == 100
AttemptCap == 50
HorizontalTarget == 4
TotalTarget == 8

(* Bound of the model: the number of simulated (non-respawning) Playing    *)
(* frames explored by the specification Spec.                              *)
MaxFrames == 7

Px(n) == 10 * n

\* static_cast<int>(f), (int)f: truncation toward zero
ToInt(p) == IF p >= 0 THEN p \div 10 ELSE -((-p) \div 10)

\* C++ integer division, truncating toward zero (b > 0)
IntDiv(a, b) == IF a >= 0 THEN a \div b ELSE -((-a) \div b)

Max(a, b) == IF a >= b THEN a ELSE b

-----------------------------------------------------------------------------
(* Helpers *)

Rect(x, y, w, h) == [x |-> x, y |-> y, w |-> w, h |-> h]

MakeNormalizedRect(x, y, w, h) ==
    LET r1 == IF w < 0 THEN [x |-> x + w, w |-> -w] ELSE [x |-> x, w |-> w]
        r2 == IF h < 0 THEN [y |-> y + h, h |-> -h] ELSE [y |-> y, h |-> h]
    IN  Rect(r1.x, r2.y, r1.w, r2.h)

\* raylib's axis-aligned overlap test: strict on every side
CheckCollisionRecs(a, b) ==
    /\ a.x < b.x + b.w
    /\ a.x + a.w > b.x
    /\ a.y < b.y + b.h
    /\ a.y + a.h > b.y

\* Player::Bounds, Monster::Bounds, Dragon::Bounds, Fruit::Bounds
Bounds(e) == Rect(e.x, e.y, Px(TILE_SIZE), Px(TILE_SIZE))

-----------------------------------------------------------------------------
(* Tunnel structure *)

Tunnel(x, y, len, dir) ==
    [startX |-> x, startY |-> y, length |-> len, direction |-> dir,
     activated |-> FALSE]

Contains(t, x, y) ==
    IF t.direction = "HORIZONTAL"
    THEN y = t.startY /\ x >= t.startX /\ x < t.startX + t.length
    ELSE IF t.direction = "VERTICAL"
    THEN x = t.startX /\ y >= t.startY /\ y < t.startY + t.length
    ELSE FALSE

\* Intersects without the crossing test of a horizontal and a vertical tunnel
IntersectsParallel(t, other) ==
    IF t.direction = "HORIZONTAL" /\ other.direction = "HORIZONTAL"
    THEN IF t.startY # other.startY THEN FALSE
         ELSE ~(t.startX + t.length <= other.startX
                \/ other.startX + other.length <= t.startX)
    ELSE IF t.direction = "VERTICAL" /\ other.direction = "VERTICAL"
    THEN IF t.startX # other.startX THEN FALSE
         ELSE ~(t.startY + t.length <= other.startY
                \/ other.startY + other.length <= t.startY)
    ELSE FALSE

Intersects(t, other) ==
    IF t.direction = "HORIZONTAL" /\ other.direction = "HORIZONTAL"
    THEN IF t.startY # other.startY THEN FALSE
         ELSE ~(t.startX + t.length <= other.startX
                \/ other.startX + other.length <= t.startX)
    ELSE IF t.direction = "VERTICAL" /\ other.direction = "VERTICAL"
    THEN IF t.startX # other.startX THEN FALSE
         ELSE ~(t.startY + t.length <= other.startY
                \/ other.startY + other.length <= t.startY)
    ELSE IF t.direction = "HORIZONTAL"
    THEN /\ other.startX >= t.startX /\ other.startX < t.startX + t.length
         /\ t.startY >= other.startY /\ t.startY < other.startY + other.length
    ELSE /\ t.startX >= other.startX /\ t.startX < other.startX + other.length
         /\ other.startY >= t.startY /\ other.startY < t.startY + t.length

\* the tiles a tunnel covers
Tiles(t) ==
    IF t.direction = "HORIZONTAL"
    THEN {<<x, t.startY>> : x \in t.startX .. (t.startX + t.length - 1)}
    ELSE {<<t.startX, y>> : y \in t.startY .. (t.startY + t.length - 1)}

-----------------------------------------------------------------------------
(* Game objects *)

\* Player::Player with the member initialisers
NewPlayer(x, y) ==
    [x |-> Px(x), y |-> Px(y), alive |-> TRUE, lives |-> START_LIVES,
     hasHarpoon |-> FALSE, harpoonDirX |-> 1, harpoonDirY |-> 0,
     harpoonTimer |-> 0, score |-> 0, deathFlashTimer |-> 0]

\* ResetTo handing the lives back as well
ResetToRefilled(p, x, y) ==
    [p EXCEPT !.x = Px(x), !.y = Px(y), !.alive = TRUE, !.hasHarpoon = FALSE,
              !.harpoonTimer = 0, !.harpoonDirX = 1, !.harpoonDirY = 0,
              !.deathFlashTimer = 0, !.lives = START_LIVES]

ResetTo(p, x, y) ==
    [p EXCEPT !.x = Px(x), !.y = Px(y), !.alive = TRUE, !.hasHarpoon = FALSE,
              !.harpoonTimer = 0, !.harpoonDirX = 1, !.harpoonDirY = 0,
              !.deathFlashTimer = 0]

\* Player::Move; k holds the frame's keys
Move(p, k) ==
    LET p1 == IF k.right
              THEN [p EXCEPT !.x = @ + PlayerSpeed, !.harpoonDirX = 1, !.harpoonDirY = 0]
              ELSE p
        p2 == IF k.left
              THEN [p1 EXCEPT !.x = @ - PlayerSpeed, !.harpoonDirX = -1, !.harpoonDirY = 0]
              ELSE p1
        p3 == IF k.up
              THEN [p2 EXCEPT !.y = @ - PlayerSpeed, !.harpoonDirX = 0, !.harpoonDirY = -1]
              ELSE p2
        p4 == IF k.down
              THEN [p3 EXCEPT !.y = @ + PlayerSpeed, !.harpoonDirX = 0, !.harpoonDirY = 1]
              ELSE p3
        c1 == IF p4.x < 0 THEN [p4 EXCEPT !.x = 0] ELSE p4
        c2 == IF c1.y < 0 THEN [c1 EXCEPT !.y = 0] ELSE c1
        c3 == IF c2.x > Px(SCREEN_W - TILE_SIZE)
              THEN [c2 EXCEPT !.x = Px(SCREEN_W - TILE_SIZE)] ELSE c2
        c4 == IF c3.y > Px(SCREEN_H - TILE_SIZE)
              THEN [c3 EXCEPT !.y = Px(SCREEN_H - TILE_SIZE)] ELSE c3
    IN  IF k.space
        THEN [c4 EXCEPT !.hasHarpoon = TRUE, !.harpoonTimer = HarpoonFrames]
        ELSE c4

\* Player::Draw leaving the harpoon flag set when the counter runs out
PlayerDrawKeep(p) ==
    LET p1 == IF p.hasHarpoon /\ p.harpoonTimer > 0
              THEN [p EXCEPT !.harpoonTimer = @ - 1]
              ELSE p
    IN  IF p1.deathFlashTimer > 0
        THEN [p1 EXCEPT !.deathFlashTimer = @ - 1]
        ELSE p1

\* Player::Draw, the part that changes state
PlayerDraw(p) ==
    LET p1 == IF p.hasHarpoon /\ p.harpoonTimer > 0
              THEN [p EXCEPT !.harpoonTimer = @ - 1,
                             !.hasHarpoon = (p.harpoonTimer - 1 > 0)]
              ELSE p
    IN  IF p1.deathFlashTimer > 0
        THEN [p1 EXCEPT !.deathFlashTimer = @ - 1]
        ELSE p1

\* Monster::Monster, Dragon::Dragon; homeTunnel is the index of the tunnel
NewEnemy(x, y, tunnel) ==
    [x |-> Px(x), y |-> Px(y), alive |-> TRUE, inTunnel |-> TRUE,
     chasing |-> FALSE, homeTunnel |-> tunnel, direction |-> 1]

\* the patrol step turning one tile late at the far end
PatrolStepLate(e, home) ==
    IF ~e.alive \/ ~e.inTunnel THEN e
    ELSE IF home.direction = "HORIZONTAL"
    THEN LET x1 == e.x + PatrolSpeed * e.direction
             gridX == IntDiv(ToInt(x1), TILE_SIZE)
         IN  [e EXCEPT !.x = x1,
                       !.direction =
                           IF gridX <= home.startX
                              \/ gridX >= home.startX + home.length
                           THEN -e.direction ELSE e.direction]
    ELSE LET y1 == e.y + PatrolSpeed * e.direction
             gridY == IntDiv(ToInt(y1), TILE_SIZE)
         IN  [e EXCEPT !.y = y1,
                       !.direction =
                           IF gridY <= home.startY
                              \/ gridY >= home.startY + home.length
                           THEN -e.direction ELSE e.direction]

\* the patrol step shared by both enemy kinds (the two bodies are the same text)
PatrolStep(e, home) ==
    IF ~e.alive \/ ~e.inTunnel THEN e
    ELSE IF home.direction = "HORIZONTAL"
    THEN LET x1 == e.x + PatrolSpeed * e.direction
             gridX == IntDiv(ToInt(x1), TILE_SIZE)
         IN  [e EXCEPT !.x = x1,
                       !.direction =
                           IF gridX <= home.startX
                              \/ gridX >= home.startX + home.length - 1
                           THEN -e.direction ELSE e.direction]
    ELSE LET y1 == e.y + PatrolSpeed * e.direction
             gridY == IntDiv(ToInt(y1), TILE_SIZE)
         IN  [e EXCEPT !.y = y1,
                       !.direction =
                           IF gridY <= home.startY
                              \/ gridY >= home.startY + home.length - 1
                           THEN -e.direction ELSE e.direction]

MonsterMoveInTunnel(m, tunnels) == PatrolStep(m, tunnels[m.homeTunnel])

DragonMoveInTunnel(d, tunnels) == PatrolStep(d, tunnels[d.homeTunnel])

\* the chase step shared by both enemy kinds; tx, ty is the player's position
ChaseStep(e, tx, ty, speed, chaseSpeed) ==
    IF ~e.alive \/ e.inTunnel THEN e
    ELSE LET currentSpeed == IF e.chasing THEN chaseSpeed ELSE speed
         IN  [e EXCEPT !.x = IF tx > e.x THEN e.x + currentSpeed
                             ELSE IF tx < e.x THEN e.x - currentSpeed ELSE e.x,
                       !.y = IF ty > e.y THEN e.y + currentSpeed
                             ELSE IF ty < e.y THEN e.y - currentSpeed ELSE e.y]

MonsterMoveTowards(m, tx, ty) == ChaseStep(m, tx, ty, PatrolSpeed, MonsterChaseSpeed)

DragonMoveTowards(d, tx, ty) == ChaseStep(d, tx, ty, PatrolSpeed, DragonChaseSpeed)

\* Fruit's position, fixed by World's initialiser
FruitBounds ==
    Rect(Px(SCREEN_W \div 2 - TILE_SIZE \div 2), Px(SCREEN_H \div 2 - TILE_SIZE \div 2),
         Px(TILE_SIZE), Px(TILE_SIZE))

-----------------------------------------------------------------------------
(* Game state *)

\* World's member initialisers, then LoadHighScore reading the stored value hs
NewWorld(hs) ==
    [player |-> NewPlayer(SpawnPixel, SpawnPixel),
     monsters |-> <<>>, dragons |-> <<>>, tunnels |-> <<>>,
     fruitCollected |-> FALSE, dug |-> {},
     state |-> "SPLASH", highScore |-> hs, respawnTimer |-> 0]

\* SaveHighScore storing the score whatever the stored value is
SaveHighScoreAlways(w) == [w EXCEPT !.highScore = w.player.score]

SaveHighScore(w) ==
    IF w.player.score > w.highScore
    THEN [w EXCEPT !.highScore = w.player.score]
    ELSE w

\* IsValidTunnel with the lower limit of startX off by one
IsValidTunnelFromZero(tunnels, newTunnel) ==
    IF newTunnel.direction = "HORIZONTAL"
       /\ (newTunnel.startX < 0
           \/ newTunnel.startX + newTunnel.length >= GRID_WIDTH - 1
           \/ newTunnel.startY < 1
           \/ newTunnel.startY >= GRID_HEIGHT - 1)
    THEN FALSE
    ELSE IF newTunnel.direction # "HORIZONTAL"
            /\ (newTunnel.startX < 0
                \/ newTunnel.startX >= GRID_WIDTH - 1
                \/ newTunnel.startY < 1
                \/ newTunnel.startY + newTunnel.length >= GRID_HEIGHT - 1)
    THEN FALSE
    ELSE \A i \in 1..Len(tunnels) : ~Intersects(newTunnel, tunnels[i])

IsValidTunnel(tunnels, newTunnel) ==
    IF newTunnel.direction = "HORIZONTAL"
       /\ (newTunnel.startX < 1
           \/ newTunnel.startX + newTunnel.length >= GRID_WIDTH - 1
           \/ newTunnel.startY < 1
           \/ newTunnel.startY >= GRID_HEIGHT - 1)
    THEN FALSE
    ELSE IF newTunnel.direction # "HORIZONTAL"
            /\ (newTunnel.startX < 1
                \/ newTunnel.startX >= GRID_WIDTH - 1
                \/ newTunnel.startY < 1
                \/ newTunnel.startY + newTunnel.length >= GRID_HEIGHT - 1)
    THEN FALSE
    ELSE \A i \in 1..Len(tunnels) : ~Intersects(newTunnel, tunnels[i])

(* The random source.  A stream is a non-empty sequence of triples of      *)
(* rand() values, one triple per placement attempt, read cyclically: the   *)
(* attempt numbered a (from 0) reads element (a % Len) + 1.                *)
Draw3(stream, attempts) == stream[(attempts % Len(stream)) + 1]

\* the first while loop of CreateTunnels
RECURSIVE HorizontalLoop(_, _, _)
HorizontalLoop(tunnels, attempts, hs) ==
    IF Len(tunnels) < HorizontalTarget /\ attempts < AttemptCap
    THEN LET r == Draw3(hs, attempts)
             x == (r[1] % (GRID_WIDTH - 10)) + 2
             y == (r[2] % (GRID_HEIGHT - 4)) + 2
             length == (r[3] % 5) + 4
             newTunnel == Tunnel(x, y, length, "HORIZONTAL")
         IN  HorizontalLoop(IF IsValidTunnel(tunnels, newTunnel)
                            THEN Append(tunnels, newTunnel) ELSE tunnels,
                            attempts + 1, hs)
    ELSE tunnels

\* the second while loop of CreateTunnels
RECURSIVE VerticalLoop(_, _, _)
VerticalLoop(tunnels, attempts, vs) ==
    IF Len(tunnels) < TotalTarget /\ attempts < AttemptCap
    THEN LET r == Draw3(vs, attempts)
             x == (r[1] % (GRID_WIDTH - 4)) + 2
             y == (r[2] % (GRID_HEIGHT - 10)) + 2
             length == (r[3] % 5) + 4
             newTunnel == Tunnel(x, y, length, "VERTICAL")
         IN  VerticalLoop(IF IsValidTunnel(tunnels, newTunnel)
                          THEN Append(tunnels, newTunnel) ELSE tunnels,
                          attempts + 1, vs)
    ELSE tunnels

CreateTunnels(hs, vs) == VerticalLoop(HorizontalLoop(<<>>, 0, hs), 0, vs)

(* The streams of the specifications, as rand() values.                    *)
(*                                                                         *)
(* Spec reads one of two horizontal streams, the candidate (2, 3, 4) alone *)
(* or the candidates (3, 3, 4) and (3, 4, 4), and one vertical candidate,  *)
(* (2, 9, 8), which IsValidTunnel rejects.                                 *)
HStreams == {<< <<0, 1, 0>> >>, << <<1, 1, 0>>, <<1, 2, 0>> >>}

VStreams == {<< <<0, 7, 4>> >>}

(* SpecGen reads two candidates per category: horizontally (2, y, 4),     *)
(* (2, y, 8) and (6, y, 4) with y in {3, 6}, vertically (6, y, 4) and      *)
(* (6, y, 8) with y in {2, 3}, so that candidates overlap, touch end to    *)
(* end and cross.                                                          *)
GenHStreams ==
    {<<a, b>> : a, b \in {<<rx, ry, rl>> : rx \in {0, 4}, ry \in {1, 4}, rl \in {0, 4}} \ {<<4, 1, 4>>, <<4, 4, 4>>}}

GenVStreams ==
    {<<a, b>> : a, b \in {<<4, ry, rl>> : ry \in {0, 1}, rl \in {0, 4}}}

(* SpecPatrol reads the horizontal candidate (6, 6, 4) or (6, 6, 8) and    *)
(* the vertical candidate (2, 2, 4) or (2, 2, 8): tunnels the player, who  *)
(* stands still at the spawn pixel, neither enters nor touches.            *)
PatrolHStreams == {<< <<4, 4, 0>> >>, << <<4, 4, 4>> >>}

PatrolVStreams == {<< <<0, 0, 0>> >>, << <<0, 0, 4>> >>}

(* One more pair of streams: the horizontal candidate (16, 2, 8), which    *)
(* IsValidTunnel rejects in every attempt, and five vertical candidates    *)
(* of length 4 in the columns 2, 4, 6, 8 and 10.                           *)
FillHStreams == {<< <<14, 0, 4>> >>}

FillVStreams ==
    {<< <<0, 0, 0>>, <<2, 0, 0>>, <<4, 0, 0>>, <<6, 0, 0>>, <<8, 0, 0>> >>}

AllHStreams == HStreams \cup GenHStreams \cup PatrolHStreams \cup FillHStreams

AllVStreams == VStreams \cup GenVStreams \cup PatrolVStreams \cup FillVStreams

\* CreateTunnels, tabulated over the streams of the specifications
Layouts == [h \in AllHStreams, v \in AllVStreams |-> CreateTunnels(h, v)]

\* the spawn pixel of the enemy placed in tunnel t
SpawnX(t) ==
    IF t.direction = "HORIZONTAL"
    THEN (t.startX + t.length \div 2) * TILE_SIZE
    ELSE t.startX * TILE_SIZE

SpawnY(t) ==
    IF t.direction = "HORIZONTAL"
    THEN t.startY * TILE_SIZE
    ELSE (t.startY + t.length \div 2) * TILE_SIZE

\* the indices 1..n that satisfy keep, in order
Indices(n, keep) == SelectSeq([i \in 1..n |-> i], LAMBDA i : keep[i])

\* ResetLevel leaving the tunnels undug
ResetLevelUndug(w, rnd) ==
    LET tunnels == Layouts[rnd.h, rnd.v]
        n == Len(tunnels)
        monAt == Indices(n, [i \in 1..n |-> rnd.mon[i] % 2 = 0])
        monsters == [j \in 1..Len(monAt) |->
                        NewEnemy(SpawnX(tunnels[monAt[j]]),
                                 SpawnY(tunnels[monAt[j]]), monAt[j])]
        hasMonster == [i \in 1..n |->
                          \E j \in 1..Len(monsters) : monsters[j].homeTunnel = i]
        drgAt == Indices(n, [i \in 1..n |-> ~hasMonster[i] /\ rnd.drg[i] % 2 = 0])
        dragons == [j \in 1..Len(drgAt) |->
                       NewEnemy(SpawnX(tunnels[drgAt[j]]),
                                SpawnY(tunnels[drgAt[j]]), drgAt[j])]
    IN  [w EXCEPT !.dug = {},
                  !.player = ResetTo(w.player, SpawnPixel, SpawnPixel),
                  !.monsters = monsters,
                  !.dragons = dragons,
                  !.tunnels = [i \in 1..n |-> [tunnels[i] EXCEPT !.activated = FALSE]],
                  !.fruitCollected = FALSE]

\* ResetLevel placing the dragons without looking for a monster
ResetLevelCrowded(w, rnd) ==
    LET tunnels == Layouts[rnd.h, rnd.v]
        n == Len(tunnels)
        dug == UNION {Tiles(tunnels[i]) : i \in 1..n}
        monAt == Indices(n, [i \in 1..n |-> rnd.mon[i] % 2 = 0])
        monsters == [j \in 1..Len(monAt) |->
                        NewEnemy(SpawnX(tunnels[monAt[j]]),
                                 SpawnY(tunnels[monAt[j]]), monAt[j])]
        drgAt == Indices(n, [i \in 1..n |-> rnd.drg[i] % 2 = 0])
        dragons == [j \in 1..Len(drgAt) |->
                       NewEnemy(SpawnX(tunnels[drgAt[j]]),
                                SpawnY(tunnels[drgAt[j]]), drgAt[j])]
    IN  [w EXCEPT !.dug = dug,
                  !.player = ResetTo(w.player, SpawnPixel, SpawnPixel),
                  !.monsters = monsters,
                  !.dragons = dragons,
                  !.tunnels = [i \in 1..n |-> [tunnels[i] EXCEPT !.activated = FALSE]],
                  !.fruitCollected = FALSE]

(* ResetLevel.  rnd.h and rnd.v are the streams CreateTunnels reads;       *)
(* rnd.mon[i] and rnd.drg[i] are the rand() values of the two placement    *)
(* loops at tunnel i (rnd.drg[i] is not read when the tunnel has a         *)
(* monster: the && short-circuits).                                        *)
ResetLevel(w, rnd) ==
    LET tunnels == Layouts[rnd.h, rnd.v]
        n == Len(tunnels)
        dug == UNION {Tiles(tunnels[i]) : i \in 1..n}
        monAt == Indices(n, [i \in 1..n |-> rnd.mon[i] % 2 = 0])
        monsters == [j \in 1..Len(monAt) |->
                        NewEnemy(SpawnX(tunnels[monAt[j]]),
                                 SpawnY(tunnels[monAt[j]]), monAt[j])]
        hasMonster == [i \in 1..n |->
                          \E j \in 1..Len(monsters) : monsters[j].homeTunnel = i]
        drgAt == Indices(n, [i \in 1..n |-> ~hasMonster[i] /\ rnd.drg[i] % 2 = 0])
        dragons == [j \in 1..Len(drgAt) |->
                       NewEnemy(SpawnX(tunnels[drgAt[j]]),
                                SpawnY(tunnels[drgAt[j]]), drgAt[j])]
    IN  [w EXCEPT !.dug = dug,
                  !.player = ResetTo(w.player, SpawnPixel, SpawnPixel),
                  !.monsters = monsters,
                  !.dragons = dragons,
                  !.tunnels = [i \in 1..n |-> [tunnels[i] EXCEPT !.activated = FALSE]],
                  !.fruitCollected = FALSE]

\* ResetAll keeping the score of the game that ended
ResetAllKeepScore(w, rnd) ==
    LET w1 == [w EXCEPT !.player.lives = START_LIVES,
                        !.player.alive = TRUE]
        w2 == ResetLevel(w1, rnd)
    IN  [w2 EXCEPT !.state = "SPLASH", !.respawnTimer = 0]

ResetAll(w, rnd) ==
    LET w1 == [w EXCEPT !.player.lives = START_LIVES,
                        !.player.score = 0,
                        !.player.alive = TRUE]
        w2 == ResetLevel(w1, rnd)
    IN  [w2 EXCEPT !.state = "SPLASH", !.respawnTimer = 0]

\* the player's tile: (int)(pos / TILE_SIZE)
PlayerGridX(p) == IntDiv(p.x, Px(TILE_SIZE))

PlayerGridY(p) == IntDiv(p.y, Px(TILE_SIZE))

\* CheckTunnelActivation with the flag following the player's presence
CheckTunnelActivationPresence(w) ==
    LET gx == PlayerGridX(w.player)
        gy == PlayerGridY(w.player)
        fires == [i \in 1..Len(w.tunnels) |->
                     Contains(w.tunnels[i], gx, gy) /\ ~w.tunnels[i].activated]
        alert(e) == IF fires[e.homeTunnel]
                    THEN [e EXCEPT !.inTunnel = FALSE, !.chasing = TRUE]
                    ELSE e
    IN  [w EXCEPT !.tunnels = [i \in 1..Len(w.tunnels) |->
                                  [w.tunnels[i] EXCEPT
                                      !.activated = Contains(w.tunnels[i], gx, gy)]],
                  !.monsters = [j \in 1..Len(w.monsters) |-> alert(w.monsters[j])],
                  !.dragons = [j \in 1..Len(w.dragons) |-> alert(w.dragons[j])]]

\* CheckTunnelActivation with the enemies chasing only while the player is inside
CheckTunnelActivationRecall(w) ==
    LET gx == PlayerGridX(w.player)
        gy == PlayerGridY(w.player)
        fires == [i \in 1..Len(w.tunnels) |->
                     Contains(w.tunnels[i], gx, gy) /\ ~w.tunnels[i].activated]
        inside == [i \in 1..Len(w.tunnels) |-> Contains(w.tunnels[i], gx, gy)]
        alert(e) == IF fires[e.homeTunnel]
                    THEN [e EXCEPT !.inTunnel = FALSE, !.chasing = TRUE]
                    ELSE IF ~inside[e.homeTunnel]
                    THEN [e EXCEPT !.inTunnel = TRUE, !.chasing = FALSE]
                    ELSE e
    IN  [w EXCEPT !.tunnels = [i \in 1..Len(w.tunnels) |->
                                  IF fires[i]
                                  THEN [w.tunnels[i] EXCEPT !.activated = TRUE]
                                  ELSE w.tunnels[i]],
                  !.monsters = [j \in 1..Len(w.monsters) |-> alert(w.monsters[j])],
                  !.dragons = [j \in 1..Len(w.dragons) |-> alert(w.dragons[j])]]

\* CheckTunnelActivation without the loop over the dragons
CheckTunnelActivationMonsters(w) ==
    LET gx == PlayerGridX(w.player)
        gy == PlayerGridY(w.player)
        fires == [i \in 1..Len(w.tunnels) |->
                     Contains(w.tunnels[i], gx, gy) /\ ~w.tunnels[i].activated]
        alert(e) == IF fires[e.homeTunnel]
                    THEN [e EXCEPT !.inTunnel = FALSE, !.chasing = TRUE]
                    ELSE e
    IN  [w EXCEPT !.tunnels = [i \in 1..Len(w.tunnels) |->
                                  IF fires[i]
                                  THEN [w.tunnels[i] EXCEPT !.activated = TRUE]
                                  ELSE w.tunnels[i]],
                  !.monsters = [j \in 1..Len(w.monsters) |-> alert(w.monsters[j])]]

\* CheckTunnelActivation setting chasing and leaving inTunnel as it is
CheckTunnelActivationBothModes(w) ==
    LET gx == PlayerGridX(w.player)
        gy == PlayerGridY(w.player)
        fires == [i \in 1..Len(w.tunnels) |->
                     Contains(w.tunnels[i], gx, gy) /\ ~w.tunnels[i].activated]
        alert(e) == IF fires[e.homeTunnel]
                    THEN [e EXCEPT !.chasing = TRUE]
                    ELSE e
    IN  [w EXCEPT !.tunnels = [i \in 1..Len(w.tunnels) |->
                                  IF fires[i]
                                  THEN [w.tunnels[i] EXCEPT !.activated = TRUE]
                                  ELSE w.tunnels[i]],
                  !.monsters = [j \in 1..Len(w.monsters) |-> alert(w.monsters[j])],
                  !.dragons = [j \in 1..Len(w.dragons) |-> alert(w.dragons[j])]]

CheckTunnelActivation(w) ==
    LET gx == PlayerGridX(w.player)
        gy == PlayerGridY(w.player)
        fires == [i \in 1..Len(w.tunnels) |->
                     Contains(w.tunnels[i], gx, gy) /\ ~w.tunnels[i].activated]
        alert(e) == IF fires[e.homeTunnel]
                    THEN [e EXCEPT !.inTunnel = FALSE, !.chasing = TRUE]
                    ELSE e
    IN  [w EXCEPT !.tunnels = [i \in 1..Len(w.tunnels) |->
                                  IF fires[i]
                                  THEN [w.tunnels[i] EXCEPT !.activated = TRUE]
                                  ELSE w.tunnels[i]],
                  !.monsters = [j \in 1..Len(w.monsters) |-> alert(w.monsters[j])],
                  !.dragons = [j \in 1..Len(w.dragons) |-> alert(w.dragons[j])]]

-----------------------------------------------------------------------------
(* Main: the sections of the Playing (not respawning) branch of the update *)

\* mark the player's tile as dug
Dig(w) ==
    LET gx == PlayerGridX(w.player)
        gy == PlayerGridY(w.player)
    IN  IF gy >= 0 /\ gy < GRID_HEIGHT /\ gx >= 0 /\ gx < GRID_WIDTH
        THEN [w EXCEPT !.dug = @ \cup {<<gx, gy>>}]
        ELSE w

\* move monsters and dragons
MoveEnemies(w) ==
    [w EXCEPT
       !.monsters = [j \in 1..Len(w.monsters) |->
           LET m == w.monsters[j]
           IN  IF m.inTunnel THEN MonsterMoveInTunnel(m, w.tunnels)
               ELSE IF m.chasing THEN MonsterMoveTowards(m, w.player.x, w.player.y)
               ELSE m],
       !.dragons = [j \in 1..Len(w.dragons) |->
           LET d == w.dragons[j]
           IN  IF d.inTunnel THEN DragonMoveInTunnel(d, w.tunnels)
               ELSE IF d.chasing THEN DragonMoveTowards(d, w.player.x, w.player.y)
               ELSE d]]

\* a live enemy of the sequence es overlaps the rectangle r
Overlapped(es, r) ==
    \E j \in 1..Len(es) : es[j].alive /\ CheckCollisionRecs(r, Bounds(es[j]))

\* check collisions with player
PlayerCollisions(w) ==
    IF Overlapped(w.monsters, Bounds(w.player))
       \/ Overlapped(w.dragons, Bounds(w.player))
    THEN [w EXCEPT !.player.alive = FALSE]
    ELSE w

HarpoonRect(p) ==
    IF p.harpoonDirX # 0
    THEN MakeNormalizedRect(p.x + Px(TILE_SIZE \div 2),
                            p.y + Px(TILE_SIZE \div 2 - 2),
                            Px(p.harpoonDirX * HarpoonReach), Px(4))
    ELSE MakeNormalizedRect(p.x + Px(TILE_SIZE \div 2 - 2),
                            p.y + Px(TILE_SIZE \div 2),
                            Px(4), Px(p.harpoonDirY * HarpoonReach))

\* Struck without the test of the alive flag
StruckAgain(es, r) ==
    {j \in 1..Len(es) : CheckCollisionRecs(r, Bounds(es[j]))}

\* the enemies of es the harpoon rectangle r kills
Struck(es, r) ==
    {j \in 1..Len(es) : es[j].alive /\ CheckCollisionRecs(r, Bounds(es[j]))}

\* HandleHarpoon scoring a dragon as a monster
HandleHarpoonFlat(w) ==
    IF w.player.hasHarpoon /\ w.player.harpoonTimer > 0
    THEN LET r == HarpoonRect(w.player)
             ms == Struck(w.monsters, r)
             ds == Struck(w.dragons, r)
         IN  [w EXCEPT
                !.monsters = [j \in 1..Len(w.monsters) |->
                    IF j \in ms THEN [w.monsters[j] EXCEPT !.alive = FALSE]
                    ELSE w.monsters[j]],
                !.dragons = [j \in 1..Len(w.dragons) |->
                    IF j \in ds THEN [w.dragons[j] EXCEPT !.alive = FALSE]
                    ELSE w.dragons[j]],
                !.player.score = @ + MonsterPoints * Cardinality(ms)
                                   + MonsterPoints * Cardinality(ds)]
    ELSE w

\* handle harpoon
HandleHarpoon(w) ==
    IF w.player.hasHarpoon /\ w.player.harpoonTimer > 0
    THEN LET r == HarpoonRect(w.player)
             ms == Struck(w.monsters, r)
             ds == Struck(w.dragons, r)
         IN  [w EXCEPT
                !.monsters = [j \in 1..Len(w.monsters) |->
                    IF j \in ms THEN [w.monsters[j] EXCEPT !.alive = FALSE]
                    ELSE w.monsters[j]],
                !.dragons = [j \in 1..Len(w.dragons) |->
                    IF j \in ds THEN [w.dragons[j] EXCEPT !.alive = FALSE]
                    ELSE w.dragons[j]],
                !.player.score = @ + MonsterPoints * Cardinality(ms)
                                   + DragonPoints * Cardinality(ds)]
    ELSE w

\* the fruit collision without the test of the collected flag
FruitCollisionAgain(w) ==
    IF CheckCollisionRecs(Bounds(w.player), FruitBounds)
    THEN [w EXCEPT !.fruitCollected = TRUE, !.player.score = @ + FruitPoints]
    ELSE w

FruitCollision(w) ==
    IF ~w.fruitCollected /\ CheckCollisionRecs(Bounds(w.player), FruitBounds)
    THEN [w EXCEPT !.fruitCollected = TRUE, !.player.score = @ + FruitPoints]
    ELSE w

\* death resolution ending the game one death late
DeathResolutionLate(w) ==
    IF ~w.player.alive
    THEN LET w1 == [w EXCEPT !.player.lives = @ - 1,
                             !.player.deathFlashTimer = DEATH_FLASH_TIME]
         IN  IF w1.player.lives >= 0
             THEN [w1 EXCEPT !.respawnTimer = RESPAWN_DELAY]
             ELSE [SaveHighScore(w1) EXCEPT !.state = "GAMEOVER"]
    ELSE w

DeathResolution(w) ==
    IF ~w.player.alive
    THEN LET w1 == [w EXCEPT !.player.lives = @ - 1,
                             !.player.deathFlashTimer = DEATH_FLASH_TIME]
         IN  IF w1.player.lives > 0
             THEN [w1 EXCEPT !.respawnTimer = RESPAWN_DELAY]
             ELSE [SaveHighScore(w1) EXCEPT !.state = "GAMEOVER"]
    ELSE w

AllDead(es) == \A j \in 1..Len(es) : ~es[j].alive

\* the win check asking for at least one enemy
WinCheckNonEmpty(w) ==
    IF /\ AllDead(w.monsters) /\ AllDead(w.dragons)
       /\ Len(w.monsters) + Len(w.dragons) > 0
    THEN [SaveHighScore(w) EXCEPT !.state = "WIN"]
    ELSE w

\* WinCheck without the SaveHighScore call
WinCheckUnsaved(w) ==
    IF AllDead(w.monsters) /\ AllDead(w.dragons)
    THEN [w EXCEPT !.state = "WIN"]
    ELSE w

WinCheck(w) ==
    IF AllDead(w.monsters) /\ AllDead(w.dragons)
    THEN [SaveHighScore(w) EXCEPT !.state = "WIN"]
    ELSE w

\* the whole branch, in the order of the source
PlayFrame(w, k) ==
    LET w1 == [w EXCEPT !.player = Move(w.player, k)]
        w2 == Dig(w1)
        w3 == CheckTunnelActivation(w2)
        w4 == MoveEnemies(w3)
        w5 == PlayerCollisions(w4)
        w6 == HandleHarpoon(w5)
        w7 == FruitCollision(w6)
        w8 == DeathResolution(w7)
    IN  WinCheck(w8)

-----------------------------------------------------------------------------
(* Inputs of the model: the keys of a frame, the random draws of a level   *)
(* and the stored high score.                                              *)

Keys(S) ==
    [right |-> "right" \in S, left |-> "left" \in S, up |-> "up" \in S,
     down |-> "down" \in S, space |-> "space" \in S, enter |-> "enter" \in S,
     r |-> "r" \in S, click |-> "click" \in S]

\* the key combinations a frame of Spec may see
Inputs ==
    {Keys(S) : S \in {{}, {"right"}, {"down"}, {"left"}, {"space"},
                      {"right", "space"}, {"enter"}, {"click"}}}

\* every record of draws ResetLevel can read with the given streams; the dragon
\* draw of a tunnel that gets a monster is never read and is held at 0
Placements(n) ==
    {p \in [1..n -> {0, 1}] \X [1..n -> {0, 1}] :
        \A i \in 1..n : p[1][i] = 0 => p[2][i] = 0}

Draws(HS, VS) ==
    UNION {{[h |-> h, v |-> v, mon |-> p[1], drg |-> p[2]] :
               p \in Placements(Len(Layouts[h, v]))} :
           h \in HS, v \in VS}

\* the levels of Spec, the level without a tunnel included
LevelDraws == Draws(HStreams, VStreams) \cup Draws(FillHStreams, VStreams)

GenDraws == Draws(GenHStreams, GenVStreams) \cup Draws(FillHStreams, FillVStreams)

PatrolDraws == Draws(PatrolHStreams, PatrolVStreams)

\* the levels of SpecFruit: one vertical tunnel in column 2, which the player
\* neither enters nor touches on the way to the fruit
FruitDraws == Draws(FillHStreams, PatrolVStreams)

\* the keys of SpecFruit: the player walks down to the fruit's row, then right
FruitInputs(p) ==
    IF p.y < FruitBounds.y THEN {Keys({"down"})} ELSE {Keys({"right"})}

\* the keys of SpecHarpoon: the player stands still and fires
HarpoonInputs == {Keys({}), Keys({"enter"}), Keys({"space"})}

\* the keys of SpecGen and SpecPatrol: the player starts the game and stands still
IdleInputs == {Keys({}), Keys({"enter"})}

\* the content of highscore.txt at process start
StoredHighScores == {0}

\* the draws of an iteration that generates no level: none is read
NoDraws == [h |-> <<>>, v |-> <<>>, mon |-> <<>>, drg |-> <<>>]

NoHits == [monsters |-> 0, dragons |-> 0]

-----------------------------------------------------------------------------
(* The main loop.  One step of the model is one iteration: the update      *)
(* phase, then the draw phase, with the same keys.  world is the World at  *)
(* the end of the iteration.  Three variables observe the last iteration:  *)
(* upd is the World as the update phase left it, before the draw phase,    *)
(* when the iteration simulated a frame (state PLAYING, not respawning),   *)
(* and NoFrame otherwise; hits counts the enemies the harpoon killed in    *)
(* it; frames counts the simulated frames.                                 *)

NoFrame == [state |-> "NONE"]

Ended(w) == w.state \in {"GAMEOVER", "WIN"}

\* the restart test of the draw phase on the GAMEOVER and WIN screens
RestartDrawn(w, k) == Ended(w) /\ (k.click \/ k.enter \/ k.r)

\* the draw phase, the part that changes state; rnd is read by ResetAll only
DrawPhase(w, k, rnd) ==
    IF w.state = "PLAYING" THEN [w EXCEPT !.player = PlayerDraw(w.player)]
    ELSE IF RestartDrawn(w, k) THEN ResetAll(w, rnd)
    ELSE w

\* the update phase in state SPLASH
SplashUpdate(w, k, rnd) ==
    IF k.enter THEN ResetLevel([w EXCEPT !.state = "PLAYING"], rnd) ELSE w

\* the update phase in state PLAYING while the respawn countdown runs
RespawnUpdate(w, rnd) ==
    LET w1 == [w EXCEPT !.respawnTimer = @ - 1]
    IN  IF w1.respawnTimer = 0
        THEN ResetLevel([w1 EXCEPT !.player.alive = TRUE], rnd)
        ELSE w1

\* the update phase in state GAMEOVER or WIN
EndUpdate(w, k, rnd) ==
    IF k.enter \/ k.r THEN ResetAll(w, rnd) ELSE w

\* the enemies of before that are alive there and dead in after
Killed(before, after) ==
    Cardinality({j \in 1..Len(before) : before[j].alive /\ ~after[j].alive})

\* World world; world.LoadHighScore(); world.ResetAll();
InitWith(draws) ==
    /\ \E hs \in StoredHighScores : \E rnd \in draws :
           world = ResetAll(NewWorld(hs), rnd)
    /\ upd = NoFrame
    /\ frames = 0
    /\ hits = NoHits

\* an iteration that starts in state SPLASH
SplashIteration(inputs, draws) ==
    /\ world.state = "SPLASH"
    /\ \E k \in inputs :
          \E rnd \in IF k.enter THEN draws ELSE {NoDraws} :
              world' = DrawPhase(SplashUpdate(world, k, rnd), k, rnd)
    /\ upd' = NoFrame
    /\ hits' = NoHits
    /\ UNCHANGED frames

\* an iteration that starts in state PLAYING with the respawn countdown running;
\* it reads no key: the update leaves the state PLAYING, which DrawPhase draws
RespawnIteration(draws) ==
    /\ world.state = "PLAYING"
    /\ world.respawnTimer > 0
    /\ \E rnd \in IF world.respawnTimer = 1 THEN draws ELSE {NoDraws} :
          world' = DrawPhase(RespawnUpdate(world, rnd), Keys({}), rnd)
    /\ upd' = NoFrame
    /\ hits' = NoHits
    /\ UNCHANGED frames

\* an iteration that starts in state PLAYING, not respawning: a simulated frame
PlayIteration(inputs, draws, cap) ==
    /\ world.state = "PLAYING"
    /\ world.respawnTimer = 0
    /\ frames < cap
    /\ \E k \in inputs :
          /\ upd' = PlayFrame(world, k)
          /\ \E rnd \in IF RestartDrawn(upd', k) THEN draws ELSE {NoDraws} :
                 world' = DrawPhase(upd', k, rnd)
    /\ frames' = frames + 1
    /\ hits' = [monsters |-> Killed(world.monsters, upd'.monsters),
                dragons |-> Killed(world.dragons, upd'.dragons)]

\* an iteration that starts in state GAMEOVER or WIN
EndIteration(inputs, draws) ==
    /\ Ended(world)
    /\ \E k \in inputs :
          \E rnd \in IF k.enter \/ k.r \/ k.click THEN draws ELSE {NoDraws} :
              world' = DrawPhase(EndUpdate(world, k, rnd), k, rnd)
    /\ upd' = NoFrame
    /\ hits' = NoHits
    /\ UNCHANGED frames

Init == InitWith(LevelDraws)

SplashLoop == SplashIteration(Inputs, LevelDraws)

RespawnLoop == RespawnIteration(LevelDraws)

PlayLoop == PlayIteration(Inputs, LevelDraws, MaxFrames)

EndLoop == EndIteration(Inputs, LevelDraws)

Next ==
    \/ SplashLoop
    \/ RespawnLoop
    \/ PlayLoop
    \/ EndLoop

Spec == Init /\ [][Next]_vars

(* SpecGen: level generation over the wider streams.  The level of the     *)
(* title screen is replaced when the game starts, so the initial states    *)
(* are those of Spec.                                                      *)
GenSplashLoop == SplashIteration(IdleInputs, GenDraws)

NextGen == GenSplashLoop

SpecGen == Init /\ [][NextGen]_vars

(* SpecPatrol: the player stands still while the enemies patrol.           *)
MaxPatrolFrames == 600

InitPatrol == InitWith(PatrolDraws)

PatrolSplashLoop == SplashIteration(IdleInputs, PatrolDraws)

PatrolPlayLoop == PlayIteration({Keys({})}, PatrolDraws, MaxPatrolFrames)

NextPatrol ==
    \/ PatrolSplashLoop
    \/ PatrolPlayLoop

SpecPatrol == InitPatrol /\ [][NextPatrol]_vars

(* SpecFruit: the player walks from the spawn pixel to the fruit.           *)
MaxFruitFrames == 250

InitFruit == InitWith(FruitDraws)

FruitSplashLoop == SplashIteration(IdleInputs, FruitDraws)

FruitPlayLoop == PlayIteration(FruitInputs(world.player), FruitDraws, MaxFruitFrames)

NextFruit ==
    \/ FruitSplashLoop
    \/ FruitPlayLoop

SpecFruit == InitFruit /\ [][NextFruit]_vars

(* SpecHarpoon: the player stands still and fires at will, beyond the      *)
(* lifetime of a harpoon.                                                  *)
MaxHarpoonFrames == 20

HarpoonSplashLoop == SplashIteration(HarpoonInputs, PatrolDraws)

HarpoonPlayLoop == PlayIteration(HarpoonInputs, PatrolDraws, MaxHarpoonFrames)

NextHarpoon ==
    \/ HarpoonSplashLoop
    \/ HarpoonPlayLoop

SpecHarpoon == InitPatrol /\ [][NextHarpoon]_vars

(* SpecValid: IsValidTunnel as a function of its arguments.  The candidates *)
(* straddle every limit it tests, and an accepted candidate joins the      *)
(* list, as in the loop bodies of CreateTunnels.                           *)
MaxTunnels == 2

CandidateTunnels ==
    {Tunnel(x, y, len, dir) :
        x \in {0, 1, 15, 16, 19, 20, 23, 24},
        y \in {0, 1, 8, 9, 12, 13, 16, 17},
        len \in {4, 8},
        dir \in {"HORIZONTAL", "VERTICAL"}}

InitValid ==
    /\ world = NewWorld(0)
    /\ upd = NoFrame
    /\ frames = 0
    /\ hits = NoHits

\* if (IsValidTunnel(newTunnel)) tunnels.push_back(newTunnel);
TryTunnel ==
    /\ Len(world.tunnels) < MaxTunnels
    /\ \E newTunnel \in CandidateTunnels :
          /\ IsValidTunnel(world.tunnels, newTunnel)
          /\ world' = [world EXCEPT !.tunnels = Append(@, newTunnel)]
    /\ UNCHANGED <<upd, frames, hits>>

NextValid == TryTunnel

SpecValid == InitValid /\ [][NextValid]_vars

-----------------------------------------------------------------------------
(* Properties.  In a step that simulates a frame, world is the World       *)
(* before the frame and upd' the World as the update phase leaves it.      *)

\* this step simulates a frame
Simulated == upd'.state # "NONE"

\* in the frame of this step the player overlaps an enemy that is alive when
\* the collisions are checked (the harpoon acts after them)
Touched ==
    \/ \E j \in 1..Len(world.monsters) :
          /\ world.monsters[j].alive
          /\ CheckCollisionRecs(Bounds(upd'.player), Bounds(upd'.monsters[j]))
    \/ \E j \in 1..Len(world.dragons) :
          /\ world.dragons[j].alive
          /\ CheckCollisionRecs(Bounds(upd'.player), Bounds(upd'.dragons[j]))

\* this step replaces the level: the game starts, the respawn countdown
\* ends, or the game restarts
LevelReset ==
    \/ world.state = "SPLASH" /\ world'.state = "PLAYING"
    \/ world.state = "PLAYING" /\ world.respawnTimer = 1
    \/ world.state # "SPLASH" /\ world'.state = "SPLASH"

(* C1: a frame in which the player overlaps a live enemy with one life     *)
(* left ends with no life left, in state GAMEOVER, and with highScore the  *)
(* larger of its old value and the score.                                  *)
C1_LastLifeEndsGame ==
    [][(Simulated /\ Touched /\ world.player.lives = 1)
          => /\ upd'.player.lives = 0
             /\ upd'.state = "GAMEOVER"
             /\ upd'.highScore = Max(world.highScore, upd'.player.score)]_vars

(* C2: a frame in which the player overlaps live enemies with two or more  *)
(* lives left takes exactly one life, sets the respawn countdown to        *)
(* RESPAWN_DELAY and the death flash to DEATH_FLASH_TIME, and leaves the   *)
(* game in state PLAYING.                                                  *)
C2_DeathStartsRespawn ==
    [][(Simulated /\ Touched /\ world.player.lives >= 2)
          => /\ upd'.player.lives = world.player.lives - 1
             /\ upd'.respawnTimer = RESPAWN_DELAY
             /\ upd'.player.deathFlashTimer = DEATH_FLASH_TIME
             /\ upd'.state = "PLAYING"]_vars

(* C3: a frame that ends with every monster and every dragon dead ends in  *)
(* state WIN with highScore the larger of its old value and the score.     *)
C3_AllDeadWins ==
    [][(Simulated /\ AllDead(upd'.monsters) /\ AllDead(upd'.dragons))
          => /\ upd'.state = "WIN"
             /\ upd'.highScore = Max(world.highScore, upd'.player.score)]_vars

\* the harpoon killed the last live enemy in the frame, which ended in WIN
\* with the score as the new high score
C3_Witness ==
    /\ upd.state = "WIN"
    /\ hits.monsters + hits.dragons >= 1
    /\ upd.player.score > 0
    /\ upd.highScore = upd.player.score

(* C4: no two tunnels of a generated layout intersect, and no tile is       *)
(* covered by two of them.                                                 *)
C4_NoOverlap ==
    \A i, j \in 1..Len(world.tunnels) :
        i # j => /\ ~Intersects(world.tunnels[i], world.tunnels[j])
                 /\ Tiles(world.tunnels[i]) \cap Tiles(world.tunnels[j]) = {}

\* a level in play whose vertical tunnel runs along the end of a horizontal one
C4_Witness ==
    /\ world.state = "PLAYING"
    /\ \E i, j \in 1..Len(world.tunnels) :
          LET h == world.tunnels[i]
              v == world.tunnels[j]
          IN  /\ h.direction = "HORIZONTAL"
              /\ v.direction = "VERTICAL"
              /\ v.startX = h.startX + h.length
              /\ v.startY <= h.startY
              /\ h.startY < v.startY + v.length

(* C5: every tile of an accepted tunnel has its column in                  *)
(* [1, GRID_WIDTH - 1) and its row in [1, GRID_HEIGHT - 1).                *)
C5_InsideMargin ==
    \A i \in 1..Len(world.tunnels) :
        \A c \in Tiles(world.tunnels[i]) :
            /\ 1 <= c[1] /\ c[1] < GRID_WIDTH - 1
            /\ 1 <= c[2] /\ c[2] < GRID_HEIGHT - 1

\* accepted: a horizontal tunnel that starts in column 1 and a vertical one
\* that ends as low as IsValidTunnel lets it
C5_Witness ==
    /\ \E i \in 1..Len(world.tunnels) :
          /\ world.tunnels[i].direction = "HORIZONTAL"
          /\ world.tunnels[i].startX = 1
    /\ \E i \in 1..Len(world.tunnels) :
          /\ world.tunnels[i].direction = "VERTICAL"
          /\ world.tunnels[i].startY + world.tunnels[i].length = GRID_HEIGHT - 2

\* the tile of an enemy along x and along y: int(pos) / TILE_SIZE
EnemyGridX(e) == IntDiv(ToInt(e.x), TILE_SIZE)

EnemyGridY(e) == IntDiv(ToInt(e.y), TILE_SIZE)

\* the enemy e, if alive and patrolling, is on a tile of its home tunnel
Confined(e) ==
    (e.alive /\ e.inTunnel) =>
        LET t == world.tunnels[e.homeTunnel]
        IN  IF t.direction = "HORIZONTAL"
            THEN /\ EnemyGridX(e) \in t.startX .. (t.startX + t.length - 1)
                 /\ EnemyGridY(e) = t.startY
            ELSE /\ EnemyGridY(e) \in t.startY .. (t.startY + t.length - 1)
                 /\ EnemyGridX(e) = t.startX

(* C6: a live patrolling enemy is on a tile of its home tunnel: along the  *)
(* tunnel's axis within [start, start + length - 1], across it on the      *)
(* tunnel's own row or column.                                             *)
C6_PatrolConfined ==
    /\ \A j \in 1..Len(world.monsters) : Confined(world.monsters[j])
    /\ \A j \in 1..Len(world.dragons) : Confined(world.dragons[j])

\* a monster of a horizontal tunnel and a dragon of a vertical tunnel, both of
\* length 8, have turned at the far end and are back on the first tile
C6_Witness ==
    /\ world.state = "PLAYING"
    /\ \E j \in 1..Len(world.monsters) :
          LET m == world.monsters[j]
              t == world.tunnels[m.homeTunnel]
          IN  /\ m.alive /\ m.inTunnel
              /\ t.direction = "HORIZONTAL" /\ t.length = 8
              /\ EnemyGridX(m) = t.startX
    /\ \E j \in 1..Len(world.dragons) :
          LET d == world.dragons[j]
              t == world.tunnels[d.homeTunnel]
          IN  /\ d.alive /\ d.inTunnel
              /\ t.direction = "VERTICAL" /\ t.length = 8
              /\ EnemyGridY(d) = t.startY

\* the enemy e chases
Chasing(e) == e.chasing /\ ~e.inTunnel

\* the player p stands on a tile of the tunnel t
PlayerIn(t, p) == Contains(t, PlayerGridX(p), PlayerGridY(p))

(* C7: in a step that does not replace the level every tunnel stays the    *)
(* tunnel it was, an activated tunnel stays activated, and a tunnel is     *)
(* activated only in a simulated frame in which the player's tile is in    *)
(* it; a step that replaces the level leaves every tunnel dormant.         *)
C7_ActivationMonotone ==
    [][/\ ~LevelReset =>
             /\ Len(world'.tunnels) = Len(world.tunnels)
             /\ \A i \in 1..Len(world.tunnels) :
                   LET t == world.tunnels[i]
                       u == world'.tunnels[i]
                   IN  /\ [u EXCEPT !.activated = FALSE] = [t EXCEPT !.activated = FALSE]
                       /\ t.activated => u.activated
                       /\ (~t.activated /\ u.activated) =>
                              (Simulated /\ PlayerIn(t, upd'.player))
       /\ LevelReset =>
             \A i \in 1..Len(world'.tunnels) : ~world'.tunnels[i].activated]_vars

\* the player has left a tunnel that is still activated
C7_Witness ==
    /\ world.state = "PLAYING"
    /\ world.respawnTimer = 0
    /\ \E i \in 1..Len(world.tunnels) :
          /\ world.tunnels[i].activated
          /\ ~PlayerIn(world.tunnels[i], world.player)

(* C8: in a step that does not replace the level every enemy stays the     *)
(* enemy of its index and a chasing monster or dragon still chases.        *)
C8_ChaseMonotone ==
    [][~LevelReset =>
          /\ Len(world'.monsters) = Len(world.monsters)
          /\ Len(world'.dragons) = Len(world.dragons)
          /\ \A j \in 1..Len(world.monsters) :
                Chasing(world.monsters[j]) => Chasing(world'.monsters[j])
          /\ \A j \in 1..Len(world.dragons) :
                Chasing(world.dragons[j]) => Chasing(world'.dragons[j])]_vars

\* the player has left the home tunnel of a dragon that chased and is dead,
\* and the level goes on
C8_Witness ==
    /\ world.state = "PLAYING"
    /\ world.respawnTimer = 0
    /\ \E j \in 1..Len(world.dragons) :
          /\ ~world.dragons[j].alive /\ Chasing(world.dragons[j])
          /\ ~PlayerIn(world.tunnels[world.dragons[j].homeTunnel], world.player)

\* the tunnel i is dormant before the frame of this step and the player's tile
\* is in it when the frame checks the activation
Entered(i) ==
    /\ ~world.tunnels[i].activated
    /\ PlayerIn(world.tunnels[i], upd'.player)

\* the frame of this step releases the enemy of index j of the sequence es,
\* whose value after the update is es2[j], if its home tunnel is entered, and
\* leaves its mode alone otherwise
Released(es, es2, j) ==
    IF Entered(es[j].homeTunnel)
    THEN Chasing(es2[j])
    ELSE es2[j].chasing = es[j].chasing /\ es2[j].inTunnel = es[j].inTunnel

(* C9: in a simulated frame every dormant tunnel that holds the player's   *)
(* tile is activated and every monster and dragon whose home it is chases  *)
(* at the end of the update; every other enemy keeps its mode.             *)
C9_BroadcastRelease ==
    [][Simulated =>
          /\ \A i \in 1..Len(world.tunnels) :
                Entered(i) => upd'.tunnels[i].activated
          /\ \A j \in 1..Len(world.monsters) :
                Released(world.monsters, upd'.monsters, j)
          /\ \A j \in 1..Len(world.dragons) :
                Released(world.dragons, upd'.dragons, j)]_vars

\* the first simulated frame released a dragon and left a monster patrolling
C9_Witness ==
    /\ frames = 1
    /\ upd.state # "NONE"
    /\ \E j \in 1..Len(upd.dragons) :
          /\ Chasing(upd.dragons[j])
          /\ upd.tunnels[upd.dragons[j].homeTunnel].activated
    /\ \E j \in 1..Len(upd.monsters) :
          /\ upd.monsters[j].inTunnel
          /\ ~upd.tunnels[upd.monsters[j].homeTunnel].activated

\* the harpoon of the frame of this step is active
HarpoonActive == upd'.player.hasHarpoon /\ upd'.player.harpoonTimer > 0

\* the harpoon of the frame of this step strikes the enemy that is e before
\* the frame and e2 after the update
Hit(e, e2) ==
    /\ e.alive
    /\ HarpoonActive
    /\ CheckCollisionRecs(HarpoonRect(upd'.player), Bounds(e2))

\* the enemies of es, es2 after the update, that the harpoon strikes
HitCount(es, es2) == Cardinality({j \in 1..Len(es) : Hit(es[j], es2[j])})

(* C10: in a simulated frame an enemy is alive after the update exactly if *)
(* it was alive and the active harpoon's rectangle does not overlap it,    *)
(* and the score grows by 100 per monster and 200 per dragon struck        *)
(* (besides the 500 of a fruit collected in the frame).                    *)
C10_HarpoonScoring ==
    [][Simulated =>
          /\ \A j \in 1..Len(world.monsters) :
                upd'.monsters[j].alive
                    = (world.monsters[j].alive
                       /\ ~Hit(world.monsters[j], upd'.monsters[j]))
          /\ \A j \in 1..Len(world.dragons) :
                upd'.dragons[j].alive
                    = (world.dragons[j].alive
                       /\ ~Hit(world.dragons[j], upd'.dragons[j]))
          /\ upd'.player.score
                = world.player.score
                  + MonsterPoints * HitCount(world.monsters, upd'.monsters)
                  + DragonPoints * HitCount(world.dragons, upd'.dragons)
                  + (IF ~world.fruitCollected /\ upd'.fruitCollected
                     THEN FruitPoints ELSE 0)]_vars

\* one harpoon killed a monster and a dragon in one frame, for 300 points
C10_Witness ==
    /\ hits.monsters = 1
    /\ hits.dragons = 1
    /\ upd.player.score = 300

\* the enemy that is e before the frame of this step and e2 after its update
\* is dead and as it was; only the activation of its home tunnel in this
\* frame releases it (the harpoon changes nothing of it)
StaysDead(e, e2) ==
    \/ e2 = e
    \/ /\ ~world.tunnels[e.homeTunnel].activated
       /\ upd'.tunnels[e.homeTunnel].activated
       /\ e2 = [e EXCEPT !.inTunnel = FALSE, !.chasing = TRUE]

(* C11: in a simulated frame an enemy that is dead stays dead and as it    *)
(* was (the harpoon changes nothing of it), and the score grows by the     *)
(* points of the enemies that die in the frame only (and of a fruit        *)
(* collected in it): a dead enemy under the harpoon adds nothing.          *)
C11_DeadScoresOnce ==
    [][Simulated =>
          /\ \A j \in 1..Len(world.monsters) :
                ~world.monsters[j].alive
                    => StaysDead(world.monsters[j], upd'.monsters[j])
          /\ \A j \in 1..Len(world.dragons) :
                ~world.dragons[j].alive
                    => StaysDead(world.dragons[j], upd'.dragons[j])
          /\ upd'.player.score
                = world.player.score
                  + MonsterPoints * Killed(world.monsters, upd'.monsters)
                  + DragonPoints * Killed(world.dragons, upd'.dragons)
                  + (IF ~world.fruitCollected /\ upd'.fruitCollected
                     THEN FruitPoints ELSE 0)]_vars

\* a frame with the harpoon active over an enemy that was dead before it
C11_Witness ==
    /\ upd.state = "PLAYING"
    /\ upd.player.hasHarpoon /\ upd.player.harpoonTimer > 0
    /\ hits = NoHits
    /\ \/ \E j \in 1..Len(upd.monsters) :
             /\ ~upd.monsters[j].alive
             /\ CheckCollisionRecs(HarpoonRect(upd.player), Bounds(upd.monsters[j]))
       \/ \E j \in 1..Len(upd.dragons) :
             /\ ~upd.dragons[j].alive
             /\ CheckCollisionRecs(HarpoonRect(upd.player), Bounds(upd.dragons[j]))

\* an enemy that is alive and patrolling its home tunnel
Patrolling(e) == e.alive /\ e.inTunnel /\ ~e.chasing

\* the world of a new game
Fresh(w) ==
    /\ w.player.lives = START_LIVES
    /\ w.player.score = 0
    /\ w.player.alive
    /\ \A j \in 1..Len(w.monsters) : Patrolling(w.monsters[j])
    /\ \A j \in 1..Len(w.dragons) : Patrolling(w.dragons[j])
    /\ ~w.fruitCollected
    /\ \A i \in 1..Len(w.tunnels) : ~w.tunnels[i].activated
    /\ w.respawnTimer = 0

(* C12: the title state is the result of ResetAll and the step from it to  *)
(* PLAYING is ResetLevel: both worlds have START_LIVES lives, score 0, the *)
(* player alive, every enemy alive and patrolling, the fruit uncollected,  *)
(* every tunnel dormant and respawnTimer 0.                                *)
C12_RoundTripReset ==
    [][(world.state = "SPLASH" /\ world'.state = "PLAYING")
          => Fresh(world) /\ Fresh(world')]_vars

\* a new game started after a game that scored
C12_Witness ==
    /\ world.state = "PLAYING"
    /\ upd = NoFrame
    /\ world.highScore > 0
    /\ Fresh(world)
    /\ Len(world.monsters) + Len(world.dragons) > 0

\* this step calls ResetAll: the game restarts from GAMEOVER or WIN
Restarted == world.state # "SPLASH" /\ world'.state = "SPLASH"

(* C13: lives never grows in a step other than a restart, the respawn's    *)
(* ResetLevel included, and neither does it within a simulated frame; a    *)
(* restart (ResetAll) sets it to START_LIVES.                              *)
C13_LivesNonIncreasing ==
    [][/\ Simulated => upd'.player.lives <= world.player.lives
       /\ IF Restarted
          THEN world'.player.lives = START_LIVES
          ELSE world'.player.lives <= world.player.lives]_vars

\* the level regenerated by the second respawn, with one life left
C13_Witness ==
    /\ world.state = "PLAYING"
    /\ world.respawnTimer = 0
    /\ upd = NoFrame
    /\ world.player.alive
    /\ world.player.lives = START_LIVES - 2

\* the changes of the game state the state machine allows
StateChanges ==
    {<<"SPLASH", "PLAYING">>, <<"PLAYING", "GAMEOVER">>, <<"PLAYING", "WIN">>,
     <<"GAMEOVER", "SPLASH">>, <<"WIN", "SPLASH">>}

Allowed(a, b) == a = b \/ <<a, b>> \in StateChanges

\* the state changes of this step, phase by phase, are allowed ones, and a
\* restart yields the title state of a new game
FrameChangesAllowed ==
    /\ IF Simulated
       THEN Allowed(world.state, upd'.state) /\ Allowed(upd'.state, world'.state)
       ELSE Allowed(world.state, world'.state)
    /\ Restarted => /\ world'.player.lives = START_LIVES
                    /\ world'.player.score = 0
                    /\ world'.respawnTimer = 0

\* the frame of this step takes the last life: its death resolution sets the
\* state to GAMEOVER (lives changes nowhere else)
LostLastLife ==
    Simulated /\ world.player.lives = 1 /\ upd'.player.lives = 0

(* C14: the game state changes only from SPLASH to PLAYING, from PLAYING   *)
(* to GAMEOVER or WIN, and from GAMEOVER or WIN to the title state of a    *)
(* new game (lives START_LIVES, score 0, respawnTimer 0); in particular    *)
(* the state GAMEOVER that the loss of the last life sets is not left for  *)
(* WIN: the update of that frame ends in GAMEOVER.                         *)
C14_StateMachine ==
    [][/\ FrameChangesAllowed
       /\ LostLastLife => upd'.state = "GAMEOVER"]_vars

(* C15: highScore changes only in the update of a frame that ends in      *)
(* GAMEOVER or WIN, and only to a score strictly greater than the stored   *)
(* value; it never decreases, no other step changes it, and in GAMEOVER    *)
(* and WIN it is at least the score.                                       *)
C15_HighScorePersistence ==
    [][/\ world'.highScore >= world.highScore
       /\ ~Simulated => world'.highScore = world.highScore
       /\ Simulated =>
             /\ world'.highScore = upd'.highScore
             /\ upd'.highScore # world.highScore
                   => /\ Ended(upd')
                      /\ upd'.player.score > world.highScore
                      /\ upd'.highScore = upd'.player.score
             /\ Ended(upd') => upd'.highScore >= upd'.player.score
       /\ Ended(world') => world'.highScore >= world'.player.score]_vars

\* a game ended with a score below the high score of an earlier game
C15_Witness ==
    /\ Ended(world)
    /\ world.highScore > world.player.score
    /\ world.highScore > 0

\* this step only counts the respawn countdown down
CountsDown ==
    /\ world'.respawnTimer = world.respawnTimer - 1
    /\ world'.state = world.state
    /\ world'.player.x = world.player.x /\ world'.player.y = world.player.y
    /\ world'.player.score = world.player.score
    /\ world'.player.lives = world.player.lives
    /\ world'.player.alive = world.player.alive
    /\ world'.monsters = world.monsters
    /\ world'.dragons = world.dragons
    /\ world'.tunnels = world.tunnels
    /\ world'.dug = world.dug
    /\ world'.fruitCollected = world.fruitCollected

\* this step ends the respawn countdown: the player is alive again in a new
\* level, with the score and the lives it had
Respawns ==
    /\ world'.respawnTimer = 0
    /\ world'.state = "PLAYING"
    /\ world'.player.alive
    /\ world'.player.score = world.player.score
    /\ world'.player.lives = world.player.lives
    /\ world'.player.x = Px(SpawnPixel) /\ world'.player.y = Px(SpawnPixel)
    /\ \A j \in 1..Len(world'.monsters) : Patrolling(world'.monsters[j])
    /\ \A j \in 1..Len(world'.dragons) : Patrolling(world'.dragons[j])
    /\ \A i \in 1..Len(world'.tunnels) : ~world'.tunnels[i].activated
    /\ world'.dug = UNION {Tiles(world'.tunnels[i]) : i \in 1..Len(world'.tunnels)}
    /\ ~world'.fruitCollected

\* the frame of this step takes a life that is not the last one
DeathFrame ==
    /\ Simulated
    /\ upd'.player.lives < world.player.lives
    /\ upd'.player.lives > 0

\* the steps of the respawn countdown, in the states where cond holds
RespawnSteps(cond) ==
    /\ (cond /\ world.respawnTimer > 1) => CountsDown
    /\ (cond /\ world.respawnTimer = 1) => Respawns
    /\ DeathFrame => /\ upd'.respawnTimer = RESPAWN_DELAY
                     /\ world'.respawnTimer = RESPAWN_DELAY

(* C16: after a death frame the countdown is RESPAWN_DELAY; a step taken   *)
(* while it is above 1 decrements it and changes neither the player's      *)
(* position, score and lives nor the enemies, the tunnels, the dug mask    *)
(* and the fruit; the step taken when it is 1 sets it to 0, restores alive *)
(* and regenerates the level with the score and the lives preserved.       *)
C16_RespawnCountdown == [][RespawnSteps(TRUE)]_vars

\* the tunnels of the layout that run in direction d
Running(d) == {i \in 1..Len(world.tunnels) : world.tunnels[i].direction = d}

(* C17: a generated layout has at most HorizontalTarget horizontal tunnels *)
(* and at most TotalTarget - HorizontalTarget vertical tunnels, at most    *)
(* TotalTarget in total.                                                   *)
C17_LayoutTargets ==
    /\ Cardinality(Running("HORIZONTAL")) <= HorizontalTarget
    /\ Cardinality(Running("VERTICAL")) <= TotalTarget - HorizontalTarget
    /\ Len(world.tunnels) <= TotalTarget

\* the points of the enemies the frame of this step kills
KillPoints ==
    MonsterPoints * Killed(world.monsters, upd'.monsters)
        + DragonPoints * Killed(world.dragons, upd'.dragons)

\* the player of the frame of this step overlaps the fruit
OnFruit == CheckCollisionRecs(Bounds(upd'.player), FruitBounds)

(* C18: a frame in which the player overlaps the uncollected fruit sets    *)
(* collected and adds exactly FruitPoints to the score; a frame without    *)
(* the overlap leaves the fruit uncollected; once collected the fruit      *)
(* stays collected until the level is replaced, and overlapping it again   *)
(* adds nothing.                                                           *)
C18_FruitOnce ==
    [][/\ Simulated =>
             /\ upd'.fruitCollected = (world.fruitCollected \/ OnFruit)
             /\ upd'.player.score
                   = world.player.score + KillPoints
                     + (IF ~world.fruitCollected /\ OnFruit
                        THEN FruitPoints ELSE 0)
             /\ world'.state = "PLAYING"
                   => world'.fruitCollected = upd'.fruitCollected
       /\ (world.fruitCollected /\ ~LevelReset) => world'.fruitCollected]_vars

\* a frame on the fruit after the frame that collected it
C18_Witness ==
    /\ upd.state = "PLAYING"
    /\ upd.fruitCollected
    /\ CheckCollisionRecs(Bounds(upd.player), FruitBounds)
    /\ upd.player.x >= FruitBounds.x
    /\ upd.player.score = FruitPoints

\* the harpoon of player p is off with its counter at 0, or on with its
\* counter in 1..HarpoonFrames
HarpoonWellFormed(p) ==
    /\ p.harpoonTimer \in 0..HarpoonFrames
    /\ p.hasHarpoon = (p.harpoonTimer > 0)

(* C19: the update of a frame either fires (harpoon on, counter            *)
(* HarpoonFrames) or leaves the harpoon as it was; the draw of a PLAYING   *)
(* frame decrements the counter of an active harpoon by one and switches   *)
(* the harpoon off when the counter reaches 0; enemies die only in frames  *)
(* whose harpoon is active.  A harpoon that is not fired again is thus     *)
(* active in at most HarpoonFrames consecutive frames.                     *)
C19_HarpoonLifetime ==
    [][/\ HarpoonWellFormed(world.player)
       /\ HarpoonWellFormed(world'.player)
       /\ Simulated =>
             LET p == world.player
                 q == upd'.player
                 r == world'.player
             IN  /\ \/ q.hasHarpoon /\ q.harpoonTimer = HarpoonFrames
                    \/ /\ q.hasHarpoon = p.hasHarpoon
                       /\ q.harpoonTimer = p.harpoonTimer
                 /\ world'.state = "PLAYING"
                       => /\ r.harpoonTimer = Max(q.harpoonTimer - 1, 0)
                          /\ r.hasHarpoon = (r.harpoonTimer > 0)
                 /\ KillPoints > 0 => HarpoonActive]_vars

\* the last frame of a harpoon: the counter is 1 in its update and the draw
\* has switched the harpoon off
C19_Witness ==
    /\ frames >= HarpoonFrames
    /\ world.state = "PLAYING"
    /\ upd.state = "PLAYING"
    /\ upd.player.hasHarpoon /\ upd.player.harpoonTimer = 1
    /\ ~world.player.hasHarpoon /\ world.player.harpoonTimer = 0

\* the enemies of es whose home is tunnel i
HomedIn(es, i) == {j \in 1..Len(es) : es[j].homeTunnel = i}

(* C20: every tunnel of the layout is the home of at most one enemy, a     *)
(* monster or a dragon, never both; and the home of every enemy is a       *)
(* tunnel of the layout.                                                   *)
C20_OneEnemyPerTunnel ==
    /\ \A i \in 1..Len(world.tunnels) :
          Cardinality(HomedIn(world.monsters, i))
              + Cardinality(HomedIn(world.dragons, i)) <= 1
    /\ \A j \in 1..Len(world.monsters) :
          world.monsters[j].homeTunnel \in 1..Len(world.tunnels)
    /\ \A j \in 1..Len(world.dragons) :
          world.dragons[j].homeTunnel \in 1..Len(world.tunnels)

\* a level in play with a monster's tunnel, a dragon's tunnel and an empty one
C20_Witness ==
    /\ world.state = "PLAYING"
    /\ Len(world.monsters) >= 1
    /\ Len(world.dragons) >= 1
    /\ \E i \in 1..Len(world.tunnels) :
          HomedIn(world.monsters, i) \cup HomedIn(world.dragons, i) = {}

\* the tiles the tunnels of world w cover
TunnelTiles(w) == UNION {Tiles(w.tunnels[i]) : i \in 1..Len(w.tunnels)}

\* the tile of the player of world w
PlayerTile(w) == <<PlayerGridX(w.player), PlayerGridY(w.player)>>

(* C21: every tunnel tile is dug in every state; a step that replaces the  *)
(* level leaves exactly the tiles of the new tunnels dug; any other step   *)
(* keeps every dug tile and adds at most the tile of the player of a       *)
(* simulated frame.                                                        *)
C21_DugMask ==
    [][/\ TunnelTiles(world) \subseteq world.dug
       /\ TunnelTiles(world') \subseteq world'.dug
       /\ LevelReset => world'.dug = TunnelTiles(world')
       /\ Simulated =>
             /\ world.dug \subseteq upd'.dug
             /\ upd'.dug \ world.dug \subseteq {PlayerTile(upd')}
             /\ TunnelTiles(upd') \subseteq upd'.dug
       /\ ~LevelReset =>
             world'.dug = (IF Simulated THEN upd'.dug ELSE world.dug)]_vars

\* a level in play where the player has left the tunnels and dug its tile
C21_Witness ==
    /\ world.state = "PLAYING"
    /\ upd.state = "PLAYING"
    /\ TunnelTiles(world) # {}
    /\ TunnelTiles(world) \subseteq world.dug
    /\ PlayerTile(world) \in world.dug \ TunnelTiles(world)

\* enemy e of world w chases exactly when its home tunnel is activated, and
\* is in exactly one of the two modes
LockStep(w, e) ==
    /\ e.chasing = w.tunnels[e.homeTunnel].activated
    /\ e.inTunnel = ~e.chasing

\* every enemy of world w is in lock-step with its home tunnel
AllLockStep(w) ==
    /\ \A j \in 1..Len(w.monsters) : LockStep(w, w.monsters[j])
    /\ \A j \in 1..Len(w.dragons) : LockStep(w, w.dragons[j])

(* C22: at every frame boundary, and after the update of every simulated   *)
(* frame, every monster and dragon chases exactly when its home tunnel is  *)
(* activated and patrols exactly when it does not chase.                   *)
C22_ModeLockStep ==
    /\ AllLockStep(world)
    /\ upd.state # "NONE" => AllLockStep(upd)

\* a level in play with an enemy released from an activated tunnel and an
\* enemy patrolling a dormant one
C22_Witness ==
    /\ world.state = "PLAYING"
    /\ upd.state = "PLAYING"
    /\ \E i, j \in 1..Len(world.tunnels) :
          /\ world.tunnels[i].activated
          /\ ~world.tunnels[j].activated
          /\ HomedIn(world.monsters, i) \cup HomedIn(world.dragons, i) # {}
          /\ HomedIn(world.monsters, j) \cup HomedIn(world.dragons, j) # {}

(* C23: at every frame boundary lives is in 0..START_LIVES; in state       *)
(* PLAYING lives is at least 1 and the player is alive exactly when the    *)
(* respawn countdown is 0; in state GAMEOVER lives is 0.                   *)
C23_LifeRespawnConsistency ==
    /\ world.player.lives \in 0..START_LIVES
    /\ world.state = "PLAYING"
          => /\ world.player.lives >= 1
             /\ world.player.alive = (world.respawnTimer = 0)
    /\ world.state = "GAMEOVER" => world.player.lives = 0

\* the respawn countdown of the second death runs: one life is left
C23_Witness ==
    /\ world.state = "PLAYING"
    /\ world.respawnTimer > 0
    /\ world.respawnTimer < RESPAWN_DELAY
    /\ ~world.player.alive
    /\ world.player.lives = 1

\* world w has neither a monster nor a dragon
NoEnemies(w) == Len(w.monsters) = 0 /\ Len(w.dragons) = 0

(* C24: a simulated frame of a level without monsters and dragons ends in  *)
(* state WIN, with no enemy killed, no life lost and the score changed by  *)
(* the fruit at most; it is the first frame of the level, since the level  *)
(* starts in state PLAYING and every frame of it ends in WIN.              *)
C24_EmptyLevelWins ==
    [][(Simulated /\ NoEnemies(world))
          => /\ upd'.state = "WIN"
             /\ NoEnemies(upd')
             /\ hits' = NoHits
             /\ upd'.player.alive
             /\ upd'.player.lives = world.player.lives
             /\ upd'.player.score
                   = world.player.score
                     + (IF ~world.fruitCollected /\ upd'.fruitCollected
                        THEN FruitPoints ELSE 0)
             /\ upd'.highScore = Max(world.highScore, upd'.player.score)]_vars

\* the frame of a level whose tunnels got no enemy has ended in WIN
C24_Witness ==
    /\ upd.state = "WIN"
    /\ NoEnemies(upd)
    /\ Len(upd.tunnels) > 0
    /\ hits = NoHits
    /\ ~upd.player.hasHarpoon

====
